---------------------------- MODULE Spec2Model ----------------------------
(***************************************************************************)
(* Model of the IPPREFIX custom type of velox: the cast operator of        *)
(* velox/functions/prestosql/types/IPPrefixType.cpp and the scalar         *)
(* functions of the IP prefix function header (src/unnamed/part_003).      *)
(* The registries of custom types and of functions and the extension      *)
(* loader, whose code is outside the sources at hand, are modelled from    *)
(* their documentation, their callers and their tests.                     *)
(*                                                                         *)
(* Representation.                                                         *)
(*  - A 128-bit integer (int128_t / uint128_t) is the set of the positions *)
(*    of its one bits, a subset of 0..127 (bit 0 least significant).       *)
(*    and = \cap, or = \cup, x ^ -1 = complement.                          *)
(*  - A byte array (folly::ByteArray16, the memory of an int128_t) is a    *)
(*    sequence of numbers 0..255.                                          *)
(*  - A string is a sequence of lexemes, each a record [t, b, n]:          *)
(*      t = "slash"  the character '/'                                     *)
(*      t = "v4"     a dotted-decimal IPv4 literal of bytes b              *)
(*      t = "v6"     a colon-hex IPv6 literal of bytes b                   *)
(*      t = "num"    the decimal digits of the number n                    *)
(*      t = "junk"   some other text (n tells them apart)                  *)
(*  - The stored prefix is a signed byte (int8_t, -128..127).              *)
(***************************************************************************)
EXTENDS Integers, Sequences, FiniteSets, TLC

VARIABLES
    pc,                 \* position: "castFrom", "castTo", "call", "registry", and
                        \* where a call ended: "done", "crashed", "failed", "... NYI"
    otherType,          \* castTo: the type of the input; castFrom: the result type
    source,             \* castFrom: the IPPREFIX input vector and how it is laid out
    input,              \* castTo: the input vector of strings (rows 0 .. size-1)
    rows,               \* castTo: the SelectivityVector (set of active rows)
    skipErrorDetails,   \* threadSkipErrorDetails()
    result,             \* castTo: the result vector, [ip, prefix] are its children
    status,             \* per-row status held by the EvalCtx
    fnArgs,             \* scalar function call: its arguments
    fnOut,              \* scalar function call: what it returned
    functions,          \* the function registry: a set of entries
    types,              \* the registry of custom types: a set of entries
    calls,              \* the registrations made so far, oldest first
    loader              \* the extension loader: entry point calls and last error

\* the registries and the loader, which casts and function calls leave alone
registryVars == <<functions, types, calls, loader>>

vars == <<pc, otherType, source, input, rows, skipErrorDetails, result, status,
          fnArgs, fnOut, functions, types, calls, loader>>

-----------------------------------------------------------------------------
(* Program constants *)

kIPAddressBytes == 16
kIPPrefixBytes == 17
kIPV4Bits == 32
kIPV6Bits == 128

(* Types: the TypeKind of the physical type and the name of the logical type *)

TypeOf(kind, name) == [kind |-> kind, name |-> name]

VARCHAR == TypeOf("VARCHAR", "VARCHAR")
BIGINT == TypeOf("BIGINT", "BIGINT")
HUGEINT == TypeOf("HUGEINT", "HUGEINT")
VARBINARY == TypeOf("VARBINARY", "VARBINARY")
IPADDRESS == TypeOf("HUGEINT", "IPADDRESS")
IPPREFIX == TypeOf("ROW", "IPPREFIX")
JSON == TypeOf("VARCHAR", "JSON")

\* isIPAddressType(type)
isIPAddressType(type) == type.name = "IPADDRESS"

(* Bounds of the model *)

\* rows of a batch given to castTo
MaxRows == 2

-----------------------------------------------------------------------------
(* 128-bit integers and byte arrays *)

Pow2(k) == 2 ^ k

AllBits == 0 .. (kIPV6Bits - 1)

\* the bits of the byte b placed at bit position base
BitsOfByte(b, base) == { base + k : k \in { j \in 0..7 : (b \div Pow2(j)) % 2 = 1 } }

\* the byte made of the bits base .. base+7 of x
ByteOfBits(x, base) ==
    LET f[k \in 0..8] == IF k = 8 THEN 0
                         ELSE (IF (base + k) \in x THEN Pow2(k) ELSE 0) + f[k + 1]
    IN  f[0]

\* an address read from bytes in network order (first byte most significant)
BitsOfNetBytes(bs) ==
    UNION { BitsOfByte(bs[i], 8 * (Len(bs) - i)) : i \in 1..Len(bs) }

\* std::reverse(addrBytes.begin(), addrBytes.end())
Reverse(s) == [ i \in 1..Len(s) |-> s[Len(s) + 1 - i] ]

\* memcpy(&intAddr, &addrBytes, 16) on a little-endian host: the byte at the
\* lowest address is the least significant one
Int128OfMemory(mem) ==
    UNION { BitsOfByte(mem[j], 8 * (j - 1)) : j \in 1..kIPAddressBytes }

\* the 16 bytes an int128_t occupies in memory (little-endian host)
MemoryOfInt128(x) == [ j \in 1..kIPAddressBytes |-> ByteOfBits(x, 8 * (j - 1)) ]

\* (uint8_t) of a signed byte, and the signed byte holding an unsigned one
ToUint8(p) == p % 256
ToInt8(p) == IF (p % 256) >= 128 THEN (p % 256) - 256 ELSE p % 256

-----------------------------------------------------------------------------
(* Strings *)

Tok(t, b, n) == [t |-> t, b |-> b, n |-> n]
Slash == Tok("slash", <<>>, 0)
V4Text(b) == Tok("v4", b, 0)
V6Text(b) == Tok("v6", b, 0)
NumText(n) == Tok("num", <<>>, n)
Junk(n) == Tok("junk", <<>>, n)

\* (mutant) the check for a separator left out
HasSlashUnchecked(s) == TRUE

\* ipAddressString.str().find('/') != std::string::npos
HasSlash(s) == \E i \in 1..Len(s) : s[i].t = "slash"

\* folly::split('/', s, vec): the pieces between the separators (empty pieces kept)
RECURSIVE SplitFrom(_, _, _, _)
SplitFrom(s, i, cur, acc) ==
    IF i > Len(s) THEN Append(acc, cur)
    ELSE IF s[i].t = "slash" THEN SplitFrom(s, i + 1, <<>>, Append(acc, cur))
    ELSE SplitFrom(s, i + 1, Append(cur, s[i]), acc)

splitIpSlashCidr(s) == SplitFrom(s, 1, <<>>, <<>>)

-----------------------------------------------------------------------------
(* folly::IPAddress, as the cast operator uses it.  An address is          *)
(* [v4 |-> BOOLEAN, bits |-> set of bit positions], 32 bits wide when v4.  *)

V4MappedHigh == 32..47
NotLow32 == 32..127

\* folly::IPAddress::tryFromString: one literal of either family, else an error
AddrOk(part) == Len(part) = 1 /\ part[1].t \in {"v4", "v6"}
AddrOf(part) == [v4 |-> part[1].t = "v4", bits |-> BitsOfNetBytes(part[1].b)]

\* folly::tryTo<uint8_t>: decimal digits of a number that fits 8 bits
CidrOk(part) == Len(part) = 1 /\ part[1].t = "num" /\ part[1].n <= 255

bitCount(a) == IF a.v4 THEN kIPV4Bits ELSE kIPV6Bits

isIPv4Mapped(a) == (~a.v4) /\ (a.bits \cap NotLow32) = V4MappedHigh

\* folly::IPAddress::createIPv4 (of a V4 address, or of a mapped V6 address)
createIPv4(a) == [v4 |-> TRUE, bits |-> a.bits \cap (0..31)]

\* folly::IPAddressV4::createIPv6: the IPv4-mapped form; a V6 address is kept
createIPv6(a) == IF a.v4 THEN [v4 |-> FALSE, bits |-> a.bits \cup V4MappedHigh] ELSE a

\* (mutant) the address is stored without masking
maskAddrKept(a, n) == a

\* folly mask(numBits): the top numBits bits of the address are kept
maskAddr(a, n) == [a EXCEPT !.bits = { b \in a.bits : b >= bitCount(a) - n }]

\* toByteArray(): the 16 bytes of a V6 address in network order
toByteArray(a) == [ i \in 1..kIPAddressBytes |-> ByteOfBits(a.bits, 8 * (kIPAddressBytes - i)) ]

\* folly::IPAddress::tryCreateNetwork(str, -1, false)
tryCreateNetwork(s) ==
    LET vec == splitIpSlashCidr(s) IN
    IF Len(vec) = 0 \/ Len(vec) > 2
    THEN [err |-> "INVALID_IP_SLASH_CIDR", first |-> [v4 |-> TRUE, bits |-> {}], second |-> 0]
    ELSE IF ~AddrOk(vec[1])
    THEN [err |-> "INVALID_IP", first |-> [v4 |-> TRUE, bits |-> {}], second |-> 0]
    ELSE IF Len(vec) = 2 /\ ~CidrOk(vec[2])
    THEN [err |-> "INVALID_CIDR", first |-> AddrOf(vec[1]), second |-> 0]
    ELSE LET subnet == AddrOf(vec[1])
             cidr == IF Len(vec) = 2 THEN vec[2][1].n ELSE bitCount(subnet)
         IN  IF cidr > bitCount(subnet)
             THEN [err |-> "CIDR_MISMATCH", first |-> subnet, second |-> cidr]
             ELSE [err |-> "NONE", first |-> subnet, second |-> cidr]

-----------------------------------------------------------------------------
(* Vectors: a vector of n rows is a function on 0 .. n-1 *)

VectorOf(seq) == [ r \in 0..(Len(seq) - 1) |-> seq[r + 1] ]
NoVector == [ r \in {} |-> 0 ]

-----------------------------------------------------------------------------
(* Status of a row *)

OkStatus == [ok |-> TRUE, kind |-> "", text |-> <<>>, bound |-> 0]

\* Status::UserError(fmt, args...): kind names the format string
UserError(kind, text, bound) == [ok |-> FALSE, kind |-> kind, text |-> text, bound |-> bound]

\* Status::UserError() without a message
UserErrorPlain == UserError("", <<>>, 0)

-----------------------------------------------------------------------------
(* IPPrefixCastOperator::castFromString *)

\* (mutant) with error details skipped the status of the row is left as it is
NetworkErrorStatusUnset(s, maybeNet, skip) ==
    IF skip THEN OkStatus ELSE UserError("ExpectedFormat", s, 0)

\* the switch over maybeNet.error()
NetworkErrorStatus(s, maybeNet, skip) ==
    LET vec == splitIpSlashCidr(s) IN
    IF skip THEN UserErrorPlain
    ELSE CASE maybeNet.err = "INVALID_IP_SLASH_CIDR" -> UserError("ExpectedFormat", s, 0)
           [] maybeNet.err = "INVALID_IP" ->
                UserError("InvalidIP", IF Len(vec) > 0 THEN vec[1] ELSE <<>>, 0)
           [] maybeNet.err = "INVALID_CIDR" ->
                UserError("InvalidMask", IF Len(vec) > 1 THEN vec[2] ELSE <<>>, 0)
           [] maybeNet.err = "CIDR_MISMATCH" ->
                UserError("CidrTooBig",
                          IF Len(vec) = 2 THEN vec[2]
                          ELSE <<NumText(bitCount(maybeNet.first))>>,
                          bitCount(maybeNet.first))
           [] OTHER -> UserErrorPlain

\* (mutant) only a V4 address takes the IPv4 branch
IsV4FamilyOnlyV4(a) == a.v4

\* net.first.isIPv4Mapped() || net.first.isV4()
IsV4Family(a) == isIPv4Mapped(a) \/ a.v4

RowFailed(st) == [wrote |-> FALSE, st |-> st, ip |-> {}, prefix |-> 0]

\* std::reverse; memcpy(&intAddr, &addrBytes, 16); ip->set(..); prefix->set(..)
RowWritten(addrBytes, cidr) ==
    [wrote |-> TRUE, st |-> OkStatus,
     ip |-> Int128OfMemory(Reverse(addrBytes)), prefix |-> ToInt8(cidr)]

\* the body of the lambda given to applyToSelectedNoThrow, for one row
CastRow(s, skip) ==
    IF ~HasSlash(s)
    THEN RowFailed(IF skip THEN UserErrorPlain ELSE UserError("ExpectedFormat", s, 0))
    ELSE LET maybeNet == tryCreateNetwork(s) IN
         IF maybeNet.err # "NONE"
         THEN RowFailed(NetworkErrorStatus(s, maybeNet, skip))
         ELSE IF IsV4Family(maybeNet.first)
         THEN IF maybeNet.second > kIPV4Bits
              THEN RowFailed(IF skip THEN UserErrorPlain
                             ELSE UserError("CidrTooBig", <<NumText(maybeNet.second)>>, kIPV4Bits))
              ELSE RowWritten(
                     toByteArray(createIPv6(maskAddr(createIPv4(maybeNet.first), maybeNet.second))),
                     maybeNet.second)
         ELSE IF maybeNet.second > kIPV6Bits
              THEN RowFailed(IF skip THEN UserErrorPlain
                             ELSE UserError("CidrTooBig", <<NumText(maybeNet.second)>>, kIPV6Bits))
              ELSE RowWritten(
                     toByteArray(maskAddr(createIPv6(maybeNet.first), maybeNet.second)),
                     maybeNet.second)

\* allocateNulls(input.size(), pool, bits::kNull): every position starts null
AllNull(n) == [ r \in 0..(n - 1) |-> TRUE ]

\* the index the lambda writes the row's value at: the running rowIndex
WriteIndex(row, rowIndex) == rowIndex

\* one iteration of the loop: the lambda on `row`, on the loop's state
\*   [rowIndex, ipNulls, ip, prefixNulls, prefix, status]
CastStep(st, row, s, skip) ==
    LET r == CastRow(s, skip)
        at == WriteIndex(row, st.rowIndex)
    IN  IF r.wrote
        THEN [st EXCEPT !.ipNulls[at] = FALSE, !.ip[at] = r.ip,
                        !.prefixNulls[at] = FALSE, !.prefix[at] = r.prefix,
                        !.rowIndex = st.rowIndex + 1]
        ELSE [st EXCEPT !.status[row] = r.st]

\* context.applyToSelectedNoThrow(rows, lambda): the active rows in ascending order
RECURSIVE applyToSelected(_, _, _, _, _, _)
applyToSelected(st, row, n, sel, in, skip) ==
    IF row >= n THEN st
    ELSE applyToSelected(IF row \in sel THEN CastStep(st, row, in[row], skip) ELSE st,
                         row + 1, n, sel, in, skip)

\* castFromString: the freshly allocated children, the loop, and
\* `result = rowResultVector`
castFromString(in, sel, skip, stat) ==
    LET n == Cardinality(DOMAIN in)
        st0 == [rowIndex |-> 0,
                ipNulls |-> AllNull(n), ip |-> [ r \in 0..(n - 1) |-> {} ],
                prefixNulls |-> AllNull(n), prefix |-> [ r \in 0..(n - 1) |-> 0 ],
                status |-> stat]
    IN  applyToSelected(st0, 0, n, sel, in, skip)

\* the RowVector of the two children
RowVectorOf(st) ==
    [ipNulls |-> st.ipNulls, ip |-> st.ip, prefixNulls |-> st.prefixNulls, prefix |-> st.prefix]

\* IPPrefixCastOperator::castTo of a VARCHAR input: ensureWritable keeps what
\* the result vector holds, castFromString then builds and assigns the vector
CastTo ==
    /\ pc = "castTo"
    /\ otherType.kind = "VARCHAR"
    /\ LET st == castFromString(input, rows, skipErrorDetails, status)
       IN  /\ result' = RowVectorOf(st)
           /\ status' = st.status
    /\ pc' = "done"
    /\ UNCHANGED <<otherType, source, input, rows, skipErrorDetails, fnArgs, fnOut,
                   registryVars>>

\* IPPrefixCastOperator::castTo of an input of another kind: VELOX_NYI
CastToNotYetImplemented ==
    /\ pc = "castTo"
    /\ otherType.kind # "VARCHAR"
    /\ pc' = "castTo NYI"
    /\ UNCHANGED <<otherType, source, input, rows, skipErrorDetails, result, status,
                   fnArgs, fnOut, registryVars>>

-----------------------------------------------------------------------------
(* IPPrefixCastOperator::castToString *)

\* folly::IPAddressV4::str() and folly::IPAddressV6::str()
StrOfV4(a) == V4Text([ i \in 1..4 |-> ByteOfBits(a.bits, 8 * (4 - i)) ])
StrOfV6(a) == V6Text(toByteArray(a))

\* the body of the lambda for one row: `data` are the bytes of the StringView
\* the input vector is read as; the first 16 are copied to addrBytes as they
\* are, the byte after them is printed as the prefix length
castToStringRow(data) ==
    LET addrBytes == SubSeq(data, 1, kIPAddressBytes)
        v6Addr == [v4 |-> FALSE, bits |-> BitsOfNetBytes(addrBytes)]
        len == NumText(ToUint8(data[kIPAddressBytes + 1]))
    IN  IF isIPv4Mapped(v6Addr)
        THEN <<StrOfV4(createIPv4(v6Addr)), Slash, len>>
        ELSE <<StrOfV6(v6Addr), Slash, len>>

\* the bytes in memory of a stored value: the int128_t of the address as
\* castFromString's memcpy left it, then the byte of the prefix length
MemoryOfIPPrefix(v) == MemoryOfInt128(v.ip) \o <<ToUint8(v.prefix)>>

\* bytes that a read through an invalid pointer may find
StrayBytes ==
    { [ i \in 1..kIPPrefixBytes |-> 0 ], [ i \in 1..kIPPrefixBytes |-> 255 ] }

\* what `input.as<SimpleVector<StringView>>()->valueAt(row)` can give.
\*  layout "bytes": the vector holds the value as kIPPrefixBytes bytes of memory.
\*  layout "row":   the vector is the RowVector castFromString builds; as<> of
\*                  another vector class is a null pointer and valueAt through
\*                  it is undefined: the call dies, or reads stray bytes.
ValueAtOutcomes(src, row) ==
    IF src.layout = "bytes"
    THEN { [died |-> FALSE, data |-> MemoryOfIPPrefix(src.values[row])] }
    ELSE { [died |-> TRUE, data |-> <<>>] }
         \cup { [died |-> FALSE, data |-> d] : d \in StrayBytes }

\* IPPrefixCastOperator::castFrom to VARCHAR: the string vector it produces is
\* the input of the cast back
CastFrom ==
    /\ pc = "castFrom"
    /\ otherType.kind = "VARCHAR"
    /\ \E o \in ValueAtOutcomes(source, 0) :
          IF o.died
          THEN pc' = "crashed" /\ input' = input
          ELSE pc' = "castTo" /\ input' = VectorOf(<<castToStringRow(o.data)>>)
    /\ UNCHANGED <<otherType, source, rows, skipErrorDetails, result, status,
                   fnArgs, fnOut, registryVars>>

\* IPPrefixCastOperator::castFrom to a type of another kind: VELOX_NYI
CastFromNotYetImplemented ==
    /\ pc = "castFrom"
    /\ otherType.kind # "VARCHAR"
    /\ pc' = "castFrom NYI"
    /\ UNCHANGED <<otherType, source, input, rows, skipErrorDetails, result, status,
                   fnArgs, fnOut, registryVars>>

-----------------------------------------------------------------------------
(* The scalar functions of the IP prefix header *)

\* (mutant) no address is taken for IPv4
isIPV4Never(ip) == FALSE

\* isIPV4: (ip & mask) == ipV4, mask = bits 32..127, ipV4 = 0x0000FFFF00000000
isIPV4(ip) == (ip \cap NotLow32) = V4MappedHigh

\* values an expression with undefined behaviour may give
UndefinedInt128 == { {}, {0}, AllBits }

\* mask << n for uint128_t mask = 1: undefined unless 0 <= n < 128
ShlOne(n) == IF n \in 0..(kIPV6Bits - 1) THEN { {n} } ELSE UndefinedInt128

\* (mutant) the "- 1" left out
Minus1Dropped(x) == x

\* x - 1 on uint128_t (wraps at 0)
Minus1(x) ==
    IF x = {} THEN AllBits
    ELSE LET m == CHOOSE b \in x : \A c \in x : b <= c
         IN  (x \ {m}) \cup (0..(m - 1))

\* (mutant) the mask is not inverted
NotBitsDropped(x) == x

\* x ^ -1
NotBits(x) == AllBits \ x

\* getIPSubnetMax(ip, prefix): the values it may return
getIPSubnetMax(ip, prefix) ==
    IF isIPV4(ip)
    THEN { ip \cup Minus1(m) : m \in ShlOne(kIPV4Bits - prefix) }
    ELSE IF prefix = 0
         THEN { AllBits }
         ELSE { ip \cup Minus1(m) : m \in ShlOne(kIPV6Bits - prefix) }

\* IPSubnetMinFunction::call
IPSubnetMin(ipPrefix) == ipPrefix.ip

\* IPSubnetMaxFunction::call
IPSubnetMax(ipPrefix) == getIPSubnetMax(ipPrefix.ip, ToUint8(ipPrefix.prefix))

\* IPSubnetRangeFunction::call
IPSubnetRange(ipPrefix) ==
    { <<ipPrefix.ip, mx>> : mx \in getIPSubnetMax(ipPrefix.ip, ToUint8(ipPrefix.prefix)) }

\* IPSubnetOfFunction::call(result, ipPrefix, ip)
IPSubnetOfAddress(ipPrefix, ip) ==
    LET prefix == ToUint8(ipPrefix.prefix)
        checkIPs ==
          IF isIPV4(ipPrefix.ip)
          THEN { ip \cap NotBits(Minus1(m)) : m \in ShlOne(kIPV4Bits - prefix) }
          ELSE IF prefix = 0
               THEN { {} }
               ELSE { ip \cap NotBits(Minus1(m)) : m \in ShlOne(kIPV6Bits - prefix) }
    IN  { ipPrefix.ip = checkIP : checkIP \in checkIPs }

\* IPSubnetOfFunction::call(result, ipPrefix, ipPrefix2): the prefix fields are
\* signed bytes and are compared as such
IPSubnetOfPrefix(ipPrefix, ipPrefix2) ==
    { res /\ (ipPrefix2.prefix >= ipPrefix.prefix) :
         res \in IPSubnetOfAddress(ipPrefix, ipPrefix2.ip) }

CallSubnetMin ==
    /\ pc = "call" /\ fnArgs.fn = "ip_subnet_min"
    /\ fnOut' = [fn |-> fnArgs.fn, value |-> <<IPSubnetMin(fnArgs.ipPrefix)>>]
    /\ pc' = "done"
    /\ UNCHANGED <<otherType, source, input, rows, skipErrorDetails, result, status,
                   fnArgs, registryVars>>

CallSubnetMax ==
    /\ pc = "call" /\ fnArgs.fn = "ip_subnet_max"
    /\ \E v \in IPSubnetMax(fnArgs.ipPrefix) :
          fnOut' = [fn |-> fnArgs.fn, value |-> <<v>>]
    /\ pc' = "done"
    /\ UNCHANGED <<otherType, source, input, rows, skipErrorDetails, result, status,
                   fnArgs, registryVars>>

CallSubnetRange ==
    /\ pc = "call" /\ fnArgs.fn = "ip_subnet_range"
    /\ \E v \in IPSubnetRange(fnArgs.ipPrefix) :
          fnOut' = [fn |-> fnArgs.fn, value |-> v]
    /\ pc' = "done"
    /\ UNCHANGED <<otherType, source, input, rows, skipErrorDetails, result, status,
                   fnArgs, registryVars>>

CallSubnetOfAddress ==
    /\ pc = "call" /\ fnArgs.fn = "is_subnet_of(IPPrefix, IPAddress)"
    /\ \E v \in IPSubnetOfAddress(fnArgs.ipPrefix, fnArgs.ip) :
          fnOut' = [fn |-> fnArgs.fn, value |-> <<v>>]
    /\ pc' = "done"
    /\ UNCHANGED <<otherType, source, input, rows, skipErrorDetails, result, status,
                   fnArgs, registryVars>>

CallSubnetOfPrefix ==
    /\ pc = "call" /\ fnArgs.fn = "is_subnet_of(IPPrefix, IPPrefix)"
    /\ \E v \in IPSubnetOfPrefix(fnArgs.ipPrefix, fnArgs.ipPrefix2) :
          fnOut' = [fn |-> fnArgs.fn, value |-> <<v>>]
    /\ pc' = "done"
    /\ UNCHANGED <<otherType, source, input, rows, skipErrorDetails, result, status,
                   fnArgs, registryVars>>

-----------------------------------------------------------------------------
(* Input domains *)

A4 == <<10, 1, 2, 3>>
B4 == <<255, 255, 255, 255>>
C4 == <<192, 168, 129, 77>>
M6 == <<0, 0, 0, 0, 0, 0, 0, 0, 0, 0, 255, 255, 10, 1, 2, 3>>
X6 == <<32, 1, 13, 184, 0, 0, 0, 0, 0, 0, 0, 0, 0, 0, 255, 1>>
F6 == <<255, 255, 255, 255, 255, 255, 255, 255, 255, 255, 255, 255, 255, 255, 255, 255>>
Y6 == <<254, 128, 0, 0, 0, 0, 0, 0, 18, 52, 86, 120, 154, 188, 222, 240>>

AddrTexts == { V4Text(A4), V4Text(B4), V4Text(C4),
               V6Text(M6), V6Text(X6), V6Text(F6), V6Text(Y6) }

\* the prefix lengths tried: every length of either family, and lengths past them
PrefixNums == (0..130) \cup {200, 255, 256, 300}

\* "address/number"
CidrText(a, n) == <<a, Slash, NumText(n)>>

WellFormedStrings == { CidrText(a, n) : a \in AddrTexts, n \in PrefixNums }

MalformedStrings ==
    { <<>>, <<Slash>>, <<Slash, NumText(8)>>, <<Junk(1)>>,
      <<Junk(1), Slash, NumText(8)>>, <<Junk(1), Slash, Junk(2)>> }
    \cup { <<a>> : a \in AddrTexts }
    \cup { <<a, Slash>> : a \in AddrTexts }
    \cup { <<a, Slash, Junk(2)>> : a \in AddrTexts }
    \cup { <<a, Slash, NumText(8), Slash, NumText(8)>> : a \in AddrTexts }
    \cup { <<a, Slash, Slash, NumText(8)>> : a \in AddrTexts }
    \cup { <<a, Slash, NumText(8), Slash>> : a \in AddrTexts }

RowStrings == WellFormedStrings \cup MalformedStrings

\* the strings of the batches of several rows
BatchStrings ==
    { CidrText(V4Text(A4), 8), CidrText(V4Text(A4), 33), <<V4Text(A4)>>,
      CidrText(V6Text(X6), 128), CidrText(V6Text(M6), 24), <<Junk(1), Slash, NumText(8)>> }

Batches ==
    { <<s>> : s \in RowStrings }
    \cup UNION { [ 1..n -> BatchStrings ] : n \in 2..MaxRows }

\* what the result vector may hold before the call: nothing, or 128.0.0.0/1
PriorIp == V4MappedHigh \cup {31}
PriorResults(n) ==
    { [ipNulls |-> AllNull(n), ip |-> [ r \in 0..(n - 1) |-> {} ],
       prefixNulls |-> AllNull(n), prefix |-> [ r \in 0..(n - 1) |-> 0 ]],
      [ipNulls |-> [ r \in 0..(n - 1) |-> FALSE ], ip |-> [ r \in 0..(n - 1) |-> PriorIp ],
       prefixNulls |-> [ r \in 0..(n - 1) |-> FALSE ], prefix |-> [ r \in 0..(n - 1) |-> 1 ]] }

NoSource == [layout |-> "none", values |-> NoVector]
NoArgs == [fn |-> "", ipPrefix |-> [ip |-> {}, prefix |-> 0], ip |-> {},
           ipPrefix2 |-> [ip |-> {}, prefix |-> 0]]
\* the loader before any load
NoLoader == [entryPointCalls |-> <<>>, error |-> "none"]

\* nothing registered, nothing loaded
IdleRegistries ==
    /\ functions = {}
    /\ types = {}
    /\ calls = <<>>
    /\ loader = NoLoader

NoOut == [fn |-> "", value |-> <<>>]

-----------------------------------------------------------------------------
(* The cast of a batch of strings *)

InitCast ==
    /\ pc = "castTo"
    /\ \E b \in Batches :
         /\ input = VectorOf(b)
         /\ rows \in SUBSET (0..(Len(b) - 1))
         /\ result \in PriorResults(Len(b))
         /\ status = [ r \in 0..(Len(b) - 1) |-> OkStatus ]
    /\ skipErrorDetails \in BOOLEAN
    /\ source = NoSource
    /\ fnArgs = NoArgs
    /\ fnOut = NoOut
    /\ otherType = VARCHAR
    /\ IdleRegistries

NextCast == CastTo

SpecCast == InitCast /\ [][NextCast]_vars

-----------------------------------------------------------------------------
(* What the claims about the cast speak of *)

Written(res, k) == ~res.ipNulls[k] /\ ~res.prefixNulls[k]

\* position k of res holds the value the conversion of the string s gives
HoldsValueOf(res, k, s, skip) ==
    /\ Written(res, k)
    /\ CastRow(s, skip).wrote
    /\ res.ip[k] = CastRow(s, skip).ip
    /\ res.prefix[k] = CastRow(s, skip).prefix

SameEntry(a, b, k) ==
    /\ a.ipNulls[k] = b.ipNulls[k] /\ a.prefixNulls[k] = b.prefixNulls[k]
    /\ a.ip[k] = b.ip[k] /\ a.prefix[k] = b.prefix[k]

Failed(r) == ~status[r].ok

SlashCount(s) == Cardinality({ i \in 1..Len(s) : s[i].t = "slash" })

\* the bytes of an address literal spell an IPv4-mapped IPv6 address
MappedBytes(b) ==
    /\ Len(b) = kIPAddressBytes
    /\ \A i \in 1..10 : b[i] = 0
    /\ b[11] = 255 /\ b[12] = 255

\* the string is "address/number"
IsAddrSlashNum(s) ==
    /\ Len(s) = 3 /\ s[1].t \in {"v4", "v6"} /\ s[2].t = "slash" /\ s[3].t = "num"

\* the bound of the prefix length for the address of such a string
ApplicableBound(s) ==
    IF s[1].t = "v4" \/ MappedBytes(s[1].b) THEN kIPV4Bits ELSE kIPV6Bits

\* the stored value is IPv4-mapped
MappedInt(ip) == (ip \cap NotLow32) = V4MappedHigh

\* the value is a canonical IPPrefix: the length (the unsigned number the signed
\* byte denotes) fits the family and no bit beyond it is set
Canonical(ip, prefix) ==
    LET len == ToUint8(prefix) IN
    IF MappedInt(ip)
    THEN len <= kIPV4Bits /\ (ip \cap (0..(kIPV4Bits - 1 - len))) = {}
    ELSE len <= kIPV6Bits /\ (ip \cap (0..(kIPV6Bits - 1 - len))) = {}

\* how many rows succeeded, how many values the result holds
OkRows == { r \in rows : status[r].ok }
WrittenPositions == { k \in DOMAIN result.ip : Written(result, k) }

-----------------------------------------------------------------------------
(* C1 -- String -> IPPrefix batch cast: after the call every active row r  *)
(* is marked failed or output position r holds the IPPrefix converted from *)
(* input row r, and the output positions of the rows outside the active    *)
(* set hold what they held before the call.                                *)
C1_RowAlignedOutput ==
    [][ (pc = "castTo" /\ pc' = "done") =>
          \A r \in DOMAIN input :
             IF r \in rows
             THEN (~status'[r].ok) \/ HoldsValueOf(result', r, input[r], skipErrorDetails)
             ELSE SameEntry(result', result, r) ]_vars

(* C2 -- Per-row failure isolation: when the call has ended every active   *)
(* row has its own outcome, either a failed status (and then its string    *)
(* is one the conversion rejects) or its own converted value, whatever the *)
(* outcome of the rows before it.                                          *)
C2_OwnOutcomePerRow ==
    pc = "done" =>
       \A r \in rows :
          IF Failed(r)
          THEN ~CastRow(input[r], skipErrorDetails).wrote
          ELSE HoldsValueOf(result, r, input[r], skipErrorDetails)

(* C3 -- Canonical-value invariant: every value the cast has written has   *)
(* no address bit beyond its prefix length, a length of 0..32 when it is   *)
(* IPv4-mapped and of 0..128 otherwise, and is IPv4-mapped when every      *)
(* converted row was given as an IPv4 or IPv4-mapped literal (and only     *)
(* then).                                                                  *)
C3_WrittenValuesCanonical ==
    pc = "done" =>
       \A k \in WrittenPositions :
          /\ Canonical(result.ip[k], result.prefix[k])
          /\ (\A r \in OkRows : ApplicableBound(input[r]) = kIPV4Bits)
                => MappedInt(result.ip[k])
          /\ (\A r \in OkRows : ApplicableBound(input[r]) = kIPV6Bits)
                => ~MappedInt(result.ip[k])

\* 10.1.2.3/8 was converted: the host bits 1.2.3 were cleared
C3_Witness ==
    /\ pc = "done"
    /\ \E r \in rows : input[r] = CidrText(V4Text(A4), 8) /\ status[r].ok
    /\ \E k \in WrittenPositions :
          result.ip[k] = BitsOfNetBytes(<<255, 255, 10, 0, 0, 0>>) /\ result.prefix[k] = 8

\* a failed row writes no value: the result holds one value per row that succeeded
OneValuePerOkRow == Cardinality(WrittenPositions) = Cardinality(OkRows)

\* the statement of C9 as the specification makes it
C9_AsStated ==
    pc = "done" =>
       /\ OneValuePerOkRow
       /\ \A r \in rows :
            IsAddrSlashNum(input[r]) =>
               LET n == input[r][3].n
                   bound == ApplicableBound(input[r])
               IN  IF n > bound
                   THEN status[r] = UserError("CidrTooBig", <<NumText(n)>>, bound)
                   ELSE status[r].kind # "CidrTooBig"

\* the bound the error names: the bit count of the family the address was
\* typed in when the number is above it, else the bound of an IPv4-mapped address
ReportedBound(s, n) ==
    IF s[1].t = "v6" /\ n > kIPV6Bits THEN kIPV6Bits ELSE ApplicableBound(s)

(* C9 -- Prefix bound check: for an input "address/number" a number above  *)
(* the bound of the address (32 for an IPv4 or IPv4-mapped address, 128    *)
(* otherwise) fails the row and no value is written for it.  With error    *)
(* details kept the error reports the number and a bound when the number   *)
(* fits 8 bits (the bound is 32, or 128 when the address is typed as IPv6  *)
(* and the number is above 128), and is the invalid-mask error naming the  *)
(* number when the number is above 255; with error details skipped the     *)
(* error has no message.  A number within the bound leaves the row not     *)
(* failed.                                                                 *)
C9_PrefixBoundCheck ==
    pc = "done" =>
       /\ OneValuePerOkRow
       /\ \A r \in rows :
            IsAddrSlashNum(input[r]) =>
               LET n == input[r][3].n
                   bound == ApplicableBound(input[r])
               IN  IF n > bound
                   THEN status[r] =
                          (IF skipErrorDetails THEN UserErrorPlain
                           ELSE IF n <= 255
                           THEN UserError("CidrTooBig", <<NumText(n)>>,
                                          ReportedBound(input[r], n))
                           ELSE UserError("InvalidMask", <<NumText(n)>>, 0))
                   ELSE status[r].ok

\* "::ffff:10.1.2.3/33" was cast with error details kept and failed on the bound 32
C9_Witness ==
    /\ pc = "done"
    /\ ~skipErrorDetails
    /\ \E r \in rows :
          /\ input[r] = CidrText(V6Text(M6), 33)
          /\ status[r] = UserError("CidrTooBig", <<NumText(33)>>, kIPV4Bits)
          /\ ~Written(result, r)

\* the statement of C10 as the specification makes it
C10_AsStated ==
    pc = "done" =>
       /\ OneValuePerOkRow
       /\ \A r \in rows :
            /\ status[r].ok => SlashCount(input[r]) = 1
            /\ SlashCount(input[r]) # 1
                  => status[r] = UserError("ExpectedFormat", input[r], 0)

(* C10 -- CIDR separator rule: a row is converted only if its string holds *)
(* exactly one '/'; a string with no '/' and a string with two or more     *)
(* '/' each fail the row and no value is written for it, with the          *)
(* "expected IP/PREFIX format" error quoting the string when error details *)
(* are kept and with an error without message when they are skipped.       *)
C10_SeparatorRule ==
    pc = "done" =>
       /\ OneValuePerOkRow
       /\ \A r \in rows :
            /\ status[r].ok => SlashCount(input[r]) = 1
            /\ SlashCount(input[r]) # 1
                  => status[r] = (IF skipErrorDetails THEN UserErrorPlain
                                  ELSE UserError("ExpectedFormat", input[r], 0))

\* "10.1.2.3" and a string of two '/' were cast and failed on the format
C10_Witness ==
    /\ pc = "done"
    /\ ~skipErrorDetails
    /\ \E r \in rows :
          /\ SlashCount(input[r]) = 0
          /\ input[r] = <<V4Text(A4)>>
          /\ status[r] = UserError("ExpectedFormat", input[r], 0)
    /\ WrittenPositions = {}

-----------------------------------------------------------------------------
(* Canonical values and the arguments of the scalar functions *)

\* the addresses the values are made of, as 128-bit integers
BaseIps ==
    { BitsOfNetBytes(A4) \cup V4MappedHigh, BitsOfNetBytes(B4) \cup V4MappedHigh,
      BitsOfNetBytes(C4) \cup V4MappedHigh,
      BitsOfNetBytes(X6), BitsOfNetBytes(F6), BitsOfNetBytes(Y6) }

\* the address bits of a value: the low 32 of an IPv4-mapped one, else all
Width(ip) == IF MappedInt(ip) THEN kIPV4Bits ELSE kIPV6Bits

\* the canonical value of the address ip and the length len
CanonicalOf(ip, len) ==
    [ip |-> { b \in ip : b >= Width(ip) - len }, prefix |-> ToInt8(len)]

CanonicalValues ==
    { CanonicalOf(ip, len) : ip \in BaseIps, len \in 0..kIPV6Bits }
    \ { CanonicalOf(ip, len) : ip \in { i \in BaseIps : MappedInt(i) },
                               len \in (kIPV4Bits + 1)..kIPV6Bits }

\* the lengths of the second prefix of is_subnet_of
InnerLens == {0, 1, 8, 16, 24, 31, 32, 33, 64, 127, 128}

InnerValues ==
    { v \in CanonicalValues : ToUint8(v.prefix) \in InnerLens }

\* the addresses tried against a prefix: the base addresses, the prefix's own
\* address, and that address with one bit changed
FlipBit(ip, b) == IF b \in ip THEN ip \ {b} ELSE ip \cup {b}
FlippedBits(v) ==
    LET edge == Width(v.ip) - ToUint8(v.prefix)
    IN  {0, 31, 32, 47, 48, 127} \cup ({edge - 1, edge} \cap AllBits)
Candidates(v) == BaseIps \cup {v.ip} \cup { FlipBit(v.ip, b) : b \in FlippedBits(v) }

-----------------------------------------------------------------------------
(* The round trip: castFrom of a stored value, castTo of the string *)

InitRoundTrip ==
    /\ pc = "castFrom"
    /\ \E v \in CanonicalValues, l \in {"row", "bytes"} :
          source = [layout |-> l, values |-> VectorOf(<<v>>)]
    /\ input = NoVector
    /\ rows = {0}
    /\ skipErrorDetails \in BOOLEAN
    /\ result \in PriorResults(1)
    /\ status = VectorOf(<<OkStatus>>)
    /\ fnArgs = NoArgs
    /\ fnOut = NoOut
    /\ otherType = VARCHAR
    /\ IdleRegistries

NextRoundTrip == CastFrom \/ CastTo

SpecRoundTrip == InitRoundTrip /\ [][NextRoundTrip]_vars

-----------------------------------------------------------------------------
(* The scalar functions, each called on canonical values *)

Args(fn, v, ip, v2) == [fn |-> fn, ipPrefix |-> v, ip |-> ip, ipPrefix2 |-> v2]

InitFn ==
    /\ pc = "call"
    /\ \E v \in CanonicalValues :
          \/ fnArgs \in { Args(fn, v, {}, NoArgs.ipPrefix2) :
                             fn \in {"ip_subnet_min", "ip_subnet_max", "ip_subnet_range"} }
          \/ \E ip \in Candidates(v) :
                fnArgs = Args("is_subnet_of(IPPrefix, IPAddress)", v, ip, NoArgs.ipPrefix2)
          \/ \E v2 \in InnerValues :
                fnArgs = Args("is_subnet_of(IPPrefix, IPPrefix)", v, {}, v2)
    /\ fnOut = NoOut
    /\ source = NoSource
    /\ input = NoVector
    /\ rows = {}
    /\ skipErrorDetails = FALSE
    /\ result = CHOOSE r \in PriorResults(0) : TRUE
    /\ status = NoVector
    /\ otherType = VARCHAR
    /\ IdleRegistries

NextFn ==
    \/ CallSubnetMin
    \/ CallSubnetMax
    \/ CallSubnetRange
    \/ CallSubnetOfAddress
    \/ CallSubnetOfPrefix

SpecFn == InitFn /\ [][NextFn]_vars

-----------------------------------------------------------------------------
\* the stored value 10.0.0.0/8
TenSlash8 == CanonicalOf(BitsOfNetBytes(A4) \cup V4MappedHigh, 8)

(* C4 -- Round trip: for every canonical IPPrefix value v, castFrom to a   *)
(* string completes and castTo of that string gives a row that is not      *)
(* failed and holds a value identical to v; the string of the stored       *)
(* 10.0.0.0/8 is "10.0.0.0/8".                                             *)
C4_RoundTrip ==
    /\ pc # "crashed"
    /\ (pc = "castTo" /\ source.layout # "none" /\ source.values[0] = TenSlash8)
          => input[0] = CidrText(V4Text(<<10, 0, 0, 0>>), 8)
    /\ (pc = "done" /\ source.layout # "none")
          => /\ status[0].ok
             /\ Written(result, 0)
             /\ result.ip[0] = source.values[0].ip
             /\ result.prefix[0] = source.values[0].prefix

-----------------------------------------------------------------------------
(* What the claims about the scalar functions speak of *)

Called(fn) == pc = "done" /\ fnOut.fn = fn

\* the unsigned length a stored prefix denotes
LenOf(v) == ToUint8(v.prefix)

\* the first bit, counted from the least significant one, inside the prefix
Edge(v) == Width(v.ip) - LenOf(v)

\* the address masked to the prefix length of v: the top LenOf(v) bits of the
\* 32-bit IPv4 part when v is IPv4-mapped, of the 128 bits otherwise
MaskedTo(ip, v) == { b \in ip : b >= Edge(v) }

\* the address of v with every bit beyond the prefix length set
AllOnesBeyond(v) == v.ip \cup { b \in AllBits : b < Edge(v) }

\* the address bits of v: the IPv4 part of a mapped address, else all bits
AddressBits(v) == 0..(Width(v.ip) - 1)

(* C5 -- isSubnetOf(outer, inner prefix) is true iff isSubnetOf(outer,     *)
(* inner.ip) is true and the length of inner is at least the length of     *)
(* outer, the lengths being the unsigned numbers 0..128 they denote.       *)
C5_SubnetOfPrefix ==
    Called("is_subnet_of(IPPrefix, IPPrefix)") =>
       fnOut.value[1] =
          ( /\ \A res \in IPSubnetOfAddress(fnArgs.ipPrefix, fnArgs.ipPrefix2.ip) : res
            /\ LenOf(fnArgs.ipPrefix2) >= LenOf(fnArgs.ipPrefix) )

(* C6 -- isSubnetOf(outer, address) is true iff the address masked to the  *)
(* prefix length of outer is exactly outer.ip, for every canonical outer   *)
(* (length 0 included) and every address of either family.                 *)
C6_SubnetOfAddress ==
    Called("is_subnet_of(IPPrefix, IPAddress)") =>
       fnOut.value[1] = (MaskedTo(fnArgs.ip, fnArgs.ipPrefix) = fnArgs.ipPrefix.ip)

\* 10.1.2.3 was found in 10.0.0.0/8
C6_Witness ==
    /\ Called("is_subnet_of(IPPrefix, IPAddress)")
    /\ fnArgs.ipPrefix = TenSlash8
    /\ fnArgs.ip = BitsOfNetBytes(A4) \cup V4MappedHigh
    /\ fnOut.value[1] = TRUE

(* C7 -- subnetMax(prefix) is prefix.ip with every bit beyond the prefix   *)
(* length set to one (all 128 bits for a non-IPv4 address of length 0),    *)
(* and subnetRange(prefix) is the pair of prefix.ip and that address.      *)
C7_SubnetMaxAndRange ==
    /\ Called("ip_subnet_max") =>
          /\ fnOut.value = <<AllOnesBeyond(fnArgs.ipPrefix)>>
          /\ (~MappedInt(fnArgs.ipPrefix.ip) /\ LenOf(fnArgs.ipPrefix) = 0)
                => fnOut.value[1] = AllBits
    /\ Called("ip_subnet_range") =>
          fnOut.value = <<fnArgs.ipPrefix.ip, AllOnesBeyond(fnArgs.ipPrefix)>>

\* the range of 10.0.0.0/8 was computed: it ends at 10.255.255.255
C7_Witness ==
    /\ Called("ip_subnet_range")
    /\ fnArgs.ipPrefix = TenSlash8
    /\ fnOut.value[2] = BitsOfNetBytes(<<255, 255, 10, 255, 255, 255>>)

(* C8 -- Boundary prefix lengths: for length 0 subnetMin has no address    *)
(* bit set and subnetMax has every address bit set (the 32 bits of the     *)
(* IPv4 part of a mapped address, all 128 bits otherwise); for length 32   *)
(* on an IPv4-mapped address and length 128 on an IPv6 address subnetMax   *)
(* equals subnetMin.                                                       *)
C8_BoundaryLengths ==
    /\ (Called("ip_subnet_min") /\ LenOf(fnArgs.ipPrefix) = 0)
          => (fnOut.value[1] \cap AddressBits(fnArgs.ipPrefix)) = {}
    /\ (Called("ip_subnet_max") /\ LenOf(fnArgs.ipPrefix) = 0)
          => /\ AddressBits(fnArgs.ipPrefix) \subseteq fnOut.value[1]
             /\ (fnOut.value[1] \ AddressBits(fnArgs.ipPrefix))
                   = (fnArgs.ipPrefix.ip \ AddressBits(fnArgs.ipPrefix))
    /\ (Called("ip_subnet_max")
          /\ LenOf(fnArgs.ipPrefix) = Width(fnArgs.ipPrefix.ip))
          => fnOut.value[1] = IPSubnetMin(fnArgs.ipPrefix)
    /\ (Called("ip_subnet_range")
          /\ LenOf(fnArgs.ipPrefix) = Width(fnArgs.ipPrefix.ip))
          => fnOut.value[1] = fnOut.value[2]

\* subnetMax of the IPv6 prefix ::/0 and of a /128 were computed
C8_Witness ==
    /\ Called("ip_subnet_max")
    /\ \/ fnArgs.ipPrefix = [ip |-> {}, prefix |-> 0] /\ fnOut.value[1] = AllBits
       \/ LenOf(fnArgs.ipPrefix) = kIPV6Bits /\ fnOut.value[1] = fnArgs.ipPrefix.ip

-----------------------------------------------------------------------------
(* The casts the operator says it supports, and the casts it performs *)

\* IPPrefixCastOperator::isSupportedFromType: the HUGEINT case falls through
\* to the default when the type is not the IP address type
isSupportedFromType(other) ==
    CASE other.kind = "VARCHAR" -> TRUE
      [] other.kind = "HUGEINT" -> IF isIPAddressType(other) THEN TRUE ELSE FALSE
      [] OTHER -> FALSE

\* IPPrefixCastOperator::isSupportedToType
isSupportedToType(other) ==
    CASE other.kind = "VARCHAR" -> TRUE
      [] other.kind = "HUGEINT" -> IF isIPAddressType(other) THEN TRUE ELSE FALSE
      [] OTHER -> FALSE

\* the types a cast is asked for
CastTypes == {VARCHAR, JSON, BIGINT, HUGEINT, VARBINARY, IPADDRESS, IPPREFIX}

InitDispatch ==
    /\ otherType \in CastTypes
    /\ skipErrorDetails \in BOOLEAN
    /\ result \in PriorResults(1)
    /\ status = VectorOf(<<OkStatus>>)
    /\ \/ /\ pc = "castTo"
          /\ \E s \in BatchStrings : input = VectorOf(<<s>>)
          /\ rows \in SUBSET {0}
          /\ source = NoSource
       \/ /\ pc = "castFrom"
          /\ \E v \in InnerValues, l \in {"row", "bytes"} :
                source = [layout |-> l, values |-> VectorOf(<<v>>)]
          /\ input = NoVector
          /\ rows = {0}
    /\ fnArgs = NoArgs
    /\ fnOut = NoOut
    /\ IdleRegistries

NextDispatch ==
    \/ CastTo
    \/ CastToNotYetImplemented
    \/ CastFrom
    \/ CastFromNotYetImplemented

SpecDispatch == InitDispatch /\ [][NextDispatch]_vars

\* C11: a cast the operator says it supports never ends in the
\* not-yet-implemented error: castTo raises it only from a type for which
\* isSupportedFromType is false, castFrom only to a type for which
\* isSupportedToType is false (the IP address type included).
C11_SupportedNeverNYI ==
    /\ pc = "castTo NYI" => ~isSupportedFromType(otherType)
    /\ pc = "castFrom NYI" => ~isSupportedToType(otherType)

-----------------------------------------------------------------------------
(* The registry of custom types *)

\* the registry keeps names in upper case
UpperCase(name) ==
    CASE name = "ipprefix" -> "IPPREFIX"
      [] name = "ipaddress" -> "IPADDRESS"
      [] name = "json" -> "JSON"
      [] OTHER -> name

\* a CustomTypeFactories object: getType() returns `type`
Factories(id, type) == [id |-> id, type |-> type]

\* IPPrefixTypeFactories: getType() is IPPrefixType::get()
IPPrefixTypeFactories == Factories("IPPrefixTypeFactories", IPPREFIX)

IPAddressTypeFactories == Factories("IPAddressTypeFactories", IPADDRESS)

\* registerCustomType(name, factories): the entry of the name is replaced
registerCustomType(reg, name, factories) ==
    { x \in reg : x.name # UpperCase(name) }
        \cup { [name |-> UpperCase(name), factories |-> factories] }

\* hasType(name)
hasType(reg, name) == \E x \in reg : x.name = UpperCase(name)

TypeNotFound == [found |-> FALSE, error |-> "type not found"]

\* getType(name, {})
getType(reg, name) ==
    IF hasType(reg, name)
    THEN [found |-> TRUE,
          type |-> (CHOOSE x \in reg : x.name = UpperCase(name)).factories.type]
    ELSE TypeNotFound

\* (mutant) the type is registered under another name
IPPrefixTypeNameOther == "ipprefixtype"

\* the name registerIPPrefixType registers
IPPrefixTypeName == "ipprefix"

\* registerIPPrefixType()
registerIPPrefixType(reg) ==
    registerCustomType(reg, IPPrefixTypeName, IPPrefixTypeFactories)

\* registerIPAddressType()
registerIPAddressType(reg) ==
    registerCustomType(reg, "ipaddress", IPAddressTypeFactories)

-----------------------------------------------------------------------------
(* The function registry *)

BooleanType == TypeOf("BOOLEAN", "BOOLEAN")
ArrayOfIPAddress == TypeOf("ARRAY", "ARRAY(IPADDRESS)")

\* what registerFunction<Impl, Return, Args...>({name}) registers
FunctionEntry(impl, ret, args, name) ==
    [name |-> name, args |-> args, ret |-> ret, impl |-> impl]

\* a signature is the name and the argument types
SameSignature(e, name, args) == e.name = name /\ e.args = args

\* registerFunction: an entry of the same signature is overwritten
registerFunction(reg, e) ==
    { x \in reg : ~SameSignature(x, e.name, e.args) } \cup {e}

RECURSIVE registerFunctions(_, _)
registerFunctions(reg, es) ==
    IF es = <<>> THEN reg
    ELSE registerFunctions(registerFunction(reg, Head(es)), Tail(es))

NoMatchingSignature == [found |-> FALSE, error |-> "no matching signature"]

\* resolving a call by name and argument types
resolveFunction(reg, name, args) ==
    IF \E e \in reg : SameSignature(e, name, args)
    THEN [found |-> TRUE, entry |-> CHOOSE e \in reg : SameSignature(e, name, args)]
    ELSE NoMatchingSignature

\* (mutant) the Varchar overload of ip_prefix is registered for IPAddress too
IPAddressFunctionsOneOverload(prefix) ==
    << FunctionEntry("IPPrefixFunction", IPPREFIX, <<IPADDRESS, BIGINT>>, prefix \o "ip_prefix"),
       FunctionEntry("IPPrefixFunction", IPPREFIX, <<IPADDRESS, BIGINT>>, prefix \o "ip_prefix"),
       FunctionEntry("IPSubnetMinFunction", IPADDRESS, <<IPPREFIX>>, prefix \o "ip_subnet_min"),
       FunctionEntry("IPSubnetMaxFunction", IPADDRESS, <<IPPREFIX>>, prefix \o "ip_subnet_max"),
       FunctionEntry("IPSubnetRangeFunction", ArrayOfIPAddress, <<IPPREFIX>>, prefix \o "ip_subnet_range"),
       FunctionEntry("IPSubnetOfFunction", BooleanType, <<IPPREFIX, IPADDRESS>>, prefix \o "is_subnet_of"),
       FunctionEntry("IPSubnetOfFunction", BooleanType, <<IPPREFIX, IPPREFIX>>, prefix \o "is_subnet_of") >>

\* the registerFunction calls of registerIPAddressFunctions(prefix), in order
IPAddressFunctions(prefix) ==
    << FunctionEntry("IPPrefixFunction", IPPREFIX, <<IPADDRESS, BIGINT>>, prefix \o "ip_prefix"),
       FunctionEntry("IPPrefixFunction", IPPREFIX, <<VARCHAR, BIGINT>>, prefix \o "ip_prefix"),
       FunctionEntry("IPSubnetMinFunction", IPADDRESS, <<IPPREFIX>>, prefix \o "ip_subnet_min"),
       FunctionEntry("IPSubnetMaxFunction", IPADDRESS, <<IPPREFIX>>, prefix \o "ip_subnet_max"),
       FunctionEntry("IPSubnetRangeFunction", ArrayOfIPAddress, <<IPPREFIX>>, prefix \o "ip_subnet_range"),
       FunctionEntry("IPSubnetOfFunction", BooleanType, <<IPPREFIX, IPADDRESS>>, prefix \o "is_subnet_of"),
       FunctionEntry("IPSubnetOfFunction", BooleanType, <<IPPREFIX, IPPREFIX>>, prefix \o "is_subnet_of") >>

(* Bound of the registry behaviours *)

\* registration and load calls made in one behaviour
MaxCalls == 3

\* a call of registerFunction
RegisterFunction(e) ==
    /\ pc = "registry"
    /\ Len(calls) < MaxCalls
    /\ functions' = registerFunction(functions, e)
    /\ calls' = Append(calls, [op |-> "registerFunction", entry |-> e])
    /\ UNCHANGED <<pc, otherType, source, input, rows, skipErrorDetails, result,
                   status, fnArgs, fnOut, types, loader>>

\* a call of registerIPAddressFunctions(prefix)
RegisterIPAddressFunctions(prefix) ==
    /\ pc = "registry"
    /\ Len(calls) < MaxCalls
    /\ types' = registerIPPrefixType(registerIPAddressType(types))
    /\ functions' = registerFunctions(functions, IPAddressFunctions(prefix))
    /\ calls' = Append(calls, [op |-> "registerIPAddressFunctions", prefix |-> prefix])
    /\ UNCHANGED <<pc, otherType, source, input, rows, skipErrorDetails, result,
                   status, fnArgs, fnOut, loader>>

-----------------------------------------------------------------------------
(* Registrations made by a caller, in any order *)

\* no cast and no scalar function call is under way
IdleCasts ==
    /\ otherType = VARCHAR
    /\ source = NoSource
    /\ input = NoVector
    /\ rows = {}
    /\ skipErrorDetails = FALSE
    /\ result = CHOOSE r \in PriorResults(0) : TRUE
    /\ status = NoVector
    /\ fnArgs = NoArgs
    /\ fnOut = NoOut

\* the functions a caller registers besides those of the IP address functions
SomeArgs == { <<>>, <<IPADDRESS, BIGINT>> }
SomeFunctions ==
    { FunctionEntry(f[1], f[2], args, name) :
        f \in { <<"DynamicFunction", BIGINT>>, <<"OtherFunction", BIGINT>>,
                <<"OtherFunction", VARCHAR>> },
        args \in SomeArgs,
        name \in {"your_function_name", "ip_prefix"} }

Prefixes == {"", "presto.default."}

InitFunctionRegistry ==
    /\ pc = "registry"
    /\ IdleCasts
    /\ IdleRegistries

NextFunctionRegistry ==
    \/ \E e \in SomeFunctions : RegisterFunction(e)
    \/ \E prefix \in Prefixes : RegisterIPAddressFunctions(prefix)

SpecFunctionRegistry == InitFunctionRegistry /\ [][NextFunctionRegistry]_vars

\* the registerFunction calls made so far, oldest first
RECURSIVE Registered(_)
Registered(log) ==
    IF log = <<>> THEN <<>>
    ELSE LET c == Head(log)
         IN  (CASE c.op = "registerFunction" -> <<c.entry>>
                [] c.op = "registerIPAddressFunctions" -> IPAddressFunctions(c.prefix)
                [] OTHER -> <<>>)
             \o Registered(Tail(log))

Last(S) == CHOOSE i \in S : \A j \in S : j <= i

\* the signatures calls are resolved for
BaseNames ==
    {"your_function_name", "ip_prefix", "ip_subnet_min", "ip_subnet_max",
     "ip_subnet_range", "is_subnet_of", "never_registered"}
ResolvedNames == { p \o n : p \in Prefixes, n \in BaseNames }
ResolvedArgs ==
    SomeArgs \cup { <<VARCHAR, BIGINT>>, <<IPPREFIX>>, <<IPPREFIX, IPADDRESS>>,
                    <<IPPREFIX, IPPREFIX>>, <<VARCHAR>>, <<BIGINT, BIGINT>> }

\* the signatures of the IP address functions
IPAddressSignatures ==
    { <<"ip_prefix", <<IPADDRESS, BIGINT>>>>, <<"ip_prefix", <<VARCHAR, BIGINT>>>>,
      <<"ip_subnet_min", <<IPPREFIX>>>>, <<"ip_subnet_max", <<IPPREFIX>>>>,
      <<"ip_subnet_range", <<IPPREFIX>>>>,
      <<"is_subnet_of", <<IPPREFIX, IPADDRESS>>>>,
      <<"is_subnet_of", <<IPPREFIX, IPPREFIX>>>> }

\* C12: the function registry holds exactly one entry for each signature
\* (name and ordered argument types) that was registered, and none for any
\* other; resolving a signature gives the most recent registration made with
\* it, also when that one differs from the earlier one only in its return
\* type, and fails with "no matching signature" when none was made;
\* registrations of one name with other argument types stay resolvable, so
\* after registerIPAddressFunctions both overloads of ip_prefix and of
\* is_subnet_of resolve.
C12_FunctionRegistry ==
    LET log == Registered(calls)
    IN  /\ \A name \in ResolvedNames, args \in ResolvedArgs :
              LET at == { i \in 1..Len(log) : SameSignature(log[i], name, args) }
                  entries == { e \in functions : SameSignature(e, name, args) }
              IN  IF at = {}
                  THEN /\ entries = {}
                       /\ resolveFunction(functions, name, args) = NoMatchingSignature
                  ELSE /\ entries = { log[Last(at)] }
                       /\ resolveFunction(functions, name, args)
                             = [found |-> TRUE, entry |-> log[Last(at)]]
        /\ \A i \in 1..Len(calls) :
              calls[i].op = "registerIPAddressFunctions" =>
                  \A sig \in IPAddressSignatures :
                      resolveFunction(functions, calls[i].prefix \o sig[1], sig[2]).found

\* an overload of ip_prefix registered by registerIPAddressFunctions was
\* registered again with another return type, the other overload was not
C12_Witness ==
    /\ Len(calls) >= 2
    /\ calls[1].op = "registerIPAddressFunctions"
    /\ calls[1].prefix = ""
    /\ calls[2].op = "registerFunction"
    /\ calls[2].entry = FunctionEntry("OtherFunction", VARCHAR, <<IPADDRESS, BIGINT>>, "ip_prefix")
    /\ resolveFunction(functions, "ip_prefix", <<IPADDRESS, BIGINT>>).entry.ret = VARCHAR
    /\ resolveFunction(functions, "ip_prefix", <<VARCHAR, BIGINT>>).entry.ret = IPPREFIX
    /\ ~resolveFunction(functions, "ip_prefix", <<VARCHAR>>).found

-----------------------------------------------------------------------------
(* Registrations of custom types, in any order *)

JsonTypeFactories == Factories("JsonTypeFactories", JSON)
OtherTypeFactories == Factories("OtherTypeFactories", TypeOf("VARBINARY", "OTHER"))

\* a call of registerCustomType
RegisterCustomType(name, factories) ==
    /\ pc = "registry"
    /\ Len(calls) < MaxCalls
    /\ types' = registerCustomType(types, name, factories)
    /\ calls' = Append(calls, [op |-> "registerCustomType", name |-> name,
                               factories |-> factories])
    /\ UNCHANGED <<pc, otherType, source, input, rows, skipErrorDetails, result,
                   status, fnArgs, fnOut, functions, loader>>

\* a call of registerIPPrefixType()
RegisterIPPrefixType ==
    /\ pc = "registry"
    /\ Len(calls) < MaxCalls
    /\ types' = registerIPPrefixType(types)
    /\ calls' = Append(calls, [op |-> "registerIPPrefixType"])
    /\ UNCHANGED <<pc, otherType, source, input, rows, skipErrorDetails, result,
                   status, fnArgs, fnOut, functions, loader>>

InitTypeRegistry ==
    /\ pc = "registry"
    /\ IdleCasts
    /\ IdleRegistries

NextTypeRegistry ==
    \/ \E name \in {"json", "JSON", "ipprefix"},
          factories \in {JsonTypeFactories, OtherTypeFactories} :
          RegisterCustomType(name, factories)
    \/ RegisterIPPrefixType

SpecTypeRegistry == InitTypeRegistry /\ [][NextTypeRegistry]_vars

\* the registerCustomType calls made so far, oldest first
RECURSIVE RegisteredTypes(_)
RegisteredTypes(log) ==
    IF log = <<>> THEN <<>>
    ELSE LET c == Head(log)
         IN  (CASE c.op = "registerCustomType" ->
                      << [name |-> c.name, factories |-> c.factories] >>
                [] c.op = "registerIPPrefixType" ->
                      << [name |-> "ipprefix", factories |-> IPPrefixTypeFactories] >>
                [] OTHER -> <<>>)
             \o RegisteredTypes(Tail(log))

\* the names types are looked up by
LookedUpNames == {"json", "JSON", "ipprefix", "IPPREFIX", "ipaddress", "never_registered"}

\* the registry answers for `name` as if the registrations made under a name
\* that Same(registered, name) relates to it were the registrations of `name`
AnswersBy(Same(_, _), name) ==
    LET log == RegisteredTypes(calls)
        at == { i \in 1..Len(log) : Same(log[i].name, name) }
    IN  /\ hasType(types, name) <=> at # {}
        /\ getType(types, name) =
              IF at = {} THEN TypeNotFound
              ELSE [found |-> TRUE, type |-> log[Last(at)].factories.type]

\* after registerIPPrefixType, called once or again, IPPREFIX exists and is IPPREFIX()
IPPrefixRegistered ==
    (calls # <<>> /\ calls[Len(calls)].op = "registerIPPrefixType") =>
        /\ hasType(types, "IPPREFIX")
        /\ getType(types, "IPPREFIX") = [found |-> TRUE, type |-> IPPREFIX]

SameName(a, b) == a = b
SameNameButCase(a, b) == UpperCase(a) = UpperCase(b)

\* C13 (as stated): a type exists under a name iff that name has been
\* registered, its lookup gives the type of the factory registered last
\* under that name and fails with "type not found" when the name was never
\* registered; after registerIPPrefixType the type IPPREFIX exists and its
\* lookup equals IPPREFIX().
C13_AsStated ==
    /\ \A name \in LookedUpNames : AnswersBy(SameName, name)
    /\ IPPrefixRegistered

\* C13 (amended): as stated, with names compared without regard to letter
\* case: a type exists under a name iff that name, or one that differs from
\* it only in letter case, has been registered; its lookup gives the type of
\* the factory registered last under such a name, and "type not found" when
\* there is none. Nothing is removed, so a type that exists keeps existing.
\* After registerIPPrefixType, which registers "ipprefix", the type IPPREFIX
\* exists and its lookup equals IPPREFIX().
C13_TypeRegistry ==
    /\ \A name \in LookedUpNames : AnswersBy(SameNameButCase, name)
    /\ IPPrefixRegistered

\* registerIPPrefixType was called, another factory was registered under its
\* name, and registerIPPrefixType was called again
C13_Witness ==
    /\ Len(calls) = 3
    /\ calls[1].op = "registerIPPrefixType"
    /\ calls[2].op = "registerCustomType"
    /\ calls[2].name = "ipprefix"
    /\ calls[2].factories = OtherTypeFactories
    /\ calls[3].op = "registerIPPrefixType"
    /\ getType(types, "IPPREFIX").type = IPPREFIX
    /\ ~hasType(types, "JSON")

-----------------------------------------------------------------------------
(* The extension loader *)

\* (mutant) the loader looks for the name a C++ compiler gives registry()
EntryPointSymbolMangled == "_Z8registryv"

\* the name of the entry point: extern "C" void registry()
EntryPointSymbol == "registry"

\* the registry() of the example of the documentation: one function with no
\* arguments that returns a BIGINT
ExampleRegistry ==
    << [op |-> "registerFunction",
        entry |-> FunctionEntry("DynamicFunction", BIGINT, <<>>, "your_function_name")] >>

\* a shared library: whether it can be opened, the symbols it exports, and
\* the registrations its registry() makes
SharedLibrary(opens, exports, registry) ==
    [opens |-> opens, exports |-> exports, registry |-> registry]

\* the files a load is asked for
Library(path) ==
    CASE path = "libexample.so" ->
            SharedLibrary(TRUE, {"registry"}, ExampleRegistry)
      [] path = "libjson.so" ->
            SharedLibrary(TRUE, {"registry"},
                << [op |-> "registerCustomType", name |-> "json",
                    factories |-> JsonTypeFactories],
                   [op |-> "registerFunction",
                    entry |-> FunctionEntry("JsonFunction", JSON, <<VARCHAR>>, "json_parse")] >>)
      [] path = "libother.so" ->
            SharedLibrary(TRUE, {"registry", "helper"},
                << [op |-> "registerFunction",
                    entry |-> FunctionEntry("OtherFunction", VARCHAR, <<>>, "your_function_name")],
                   [op |-> "registerCustomType", name |-> "JSON",
                    factories |-> OtherTypeFactories] >>)
      [] path = "libunrelated.so" ->
            SharedLibrary(TRUE, {"registry"},
                << [op |-> "registerFunction",
                    entry |-> FunctionEntry("UnrelatedFunction", BIGINT, <<BIGINT>>, "unrelated")] >>)
      [] path = "libmangled.so" ->
            SharedLibrary(TRUE, {"_Z8registryv"}, ExampleRegistry)
      [] OTHER ->
            SharedLibrary(FALSE, {}, <<>>)

LibraryPaths ==
    {"libexample.so", "libjson.so", "libother.so", "libunrelated.so",
     "libmangled.so", "libmissing.so"}

\* the registrations of an entry point, applied to the two registries
RECURSIVE invokeEntryPoint(_, _)
invokeEntryPoint(regs, registry) ==
    IF registry = <<>> THEN regs
    ELSE LET r == Head(registry)
             next == IF r.op = "registerCustomType"
                     THEN [regs EXCEPT !.types = registerCustomType(@, r.name, r.factories)]
                     ELSE [regs EXCEPT !.functions = registerFunction(@, r.entry)]
         IN  invokeEntryPoint(next, Tail(registry))

\* load(libraryPath): open the library, look up the entry point, call it once
Load(path) ==
    /\ pc = "registry"
    /\ Len(calls) < MaxCalls
    /\ calls' = Append(calls, [op |-> "load", path |-> path])
    /\ LET lib == Library(path)
       IN  IF ~lib.opens
           THEN /\ loader' = [loader EXCEPT !.error = "cannot open library"]
                /\ UNCHANGED <<types, functions>>
           ELSE IF EntryPointSymbol \notin lib.exports
           THEN /\ loader' = [loader EXCEPT !.error = "entry point missing"]
                /\ UNCHANGED <<types, functions>>
           ELSE LET after == invokeEntryPoint([types |-> types, functions |-> functions],
                                              lib.registry)
                IN  /\ loader' = [entryPointCalls |-> Append(loader.entryPointCalls, path),
                                  error |-> "none"]
                    /\ types' = after.types
                    /\ functions' = after.functions
    /\ UNCHANGED <<pc, otherType, source, input, rows, skipErrorDetails, result,
                   status, fnArgs, fnOut>>

InitLoader ==
    /\ pc = "registry"
    /\ IdleCasts
    /\ IdleRegistries

NextLoader == \E path \in LibraryPaths : Load(path)

SpecLoader == InitLoader /\ [][NextLoader]_vars

\* the library can be opened and exports the entry point
Loadable(path) == Library(path).opens /\ "registry" \in Library(path).exports

\* the names the entry point of the library registers functions and types under
FunctionNamesOf(path) ==
    { Library(path).registry[i].entry.name :
        i \in { k \in 1..Len(Library(path).registry) :
                   Library(path).registry[k].op = "registerFunction" } }
TypeNamesOf(path) ==
    { UpperCase(Library(path).registry[i].name) :
        i \in { k \in 1..Len(Library(path).registry) :
                   Library(path).registry[k].op = "registerCustomType" } }

LoadedNames == {"your_function_name", "json_parse", "unrelated", "never_registered"}
LoadedArgs == { <<>>, <<VARCHAR>>, <<BIGINT>> }

\* a step that is the load of `path`
IsLoadOf(path) == calls' = Append(calls, [op |-> "load", path |-> path])

\* what the step of a successful load of `path` does
LoadedOnce(path) ==
    /\ loader'.error = "none"
    /\ loader'.entryPointCalls = Append(loader.entryPointCalls, path)
    /\ \A i \in 1..Len(Library(path).registry) :
          LET r == Library(path).registry[i]
          IN  IF r.op = "registerCustomType"
              THEN getType(types', r.name) = [found |-> TRUE, type |-> r.factories.type]
              ELSE resolveFunction(functions', r.entry.name, r.entry.args)
                      = [found |-> TRUE, entry |-> r.entry]
    /\ \A name \in LoadedNames \ FunctionNamesOf(path), args \in LoadedArgs :
          resolveFunction(functions', name, args) = resolveFunction(functions, name, args)
    /\ \A name \in LookedUpNames :
          UpperCase(name) \notin TypeNamesOf(path) =>
              getType(types', name) = getType(types, name)
    /\ path = "libexample.so" =>
          resolveFunction(functions', "your_function_name", <<>>)
             = [found |-> TRUE,
                entry |-> FunctionEntry("DynamicFunction", BIGINT, <<>>, "your_function_name")]

\* what the step of a failed load does
LoadFailed ==
    /\ loader'.error \in {"cannot open library", "entry point missing"}
    /\ loader'.entryPointCalls = loader.entryPointCalls
    /\ functions' = functions
    /\ types' = types

-----------------------------------------------------------------------------
(* The cast with and without error details *)

\* what the call that has ended would have left had threadSkipErrorDetails()
\* been the other way round
OtherRun ==
    castFromString(input, rows, ~skipErrorDetails, [ r \in DOMAIN status |-> OkStatus ])

\* C15: the cast of a batch of strings with error details skipped and the
\* cast of the same batch and active rows with error details kept mark the
\* same rows failed and leave the same result vector; the two runs differ
\* only in the text the errors carry.
C15_SameOutcomeWithoutDetails ==
    pc = "done" =>
        /\ RowVectorOf(OtherRun) = result
        /\ \A r \in DOMAIN status : OtherRun.status[r].ok = status[r].ok
        /\ \A r \in DOMAIN status :
              (skipErrorDetails /\ Failed(r)) => status[r] = UserErrorPlain

\* a batch cast with error details skipped: one row failed without a
\* message where the other run has one, another row was written
C15_Witness ==
    /\ pc = "done"
    /\ skipErrorDetails
    /\ \E r \in rows :
          /\ Failed(r)
          /\ status[r] = UserErrorPlain
          /\ OtherRun.status[r].kind # ""
    /\ \E k \in DOMAIN result.ip : Written(result, k)

-----------------------------------------------------------------------------
(* ip_prefix: IPPrefixFunction *)

\* bigEndianByteArray(bytes): the bytes of an int128_t in memory turned into
\* network order, and back (little-endian host)
bigEndianByteArray(bytes) == Reverse(bytes)

\* folly mask(numBits) throws when numBits is above the bit count of the family
maskThrows(a, numBits) == numBits > bitCount(a)

Thrown == [threw |-> TRUE, value |-> [ip |-> {}, prefix |-> 0]]

\* std::make_shared<IPPrefix>(canonicalAddrInt, prefix)
MakeIPPrefix(canonicalBytes, prefix) ==
    [threw |-> FALSE,
     value |-> [ip |-> Int128OfMemory(bigEndianByteArray(canonicalBytes)),
                prefix |-> ToInt8(prefix)]]

\* IPPrefixFunction::call(result, IPAddress ip, int64_t prefixBits)
IPPrefixOfAddress(ip, prefixBits) ==
    LET prefix == ToUint8(prefixBits)
        addrBytes == bigEndianByteArray(MemoryOfInt128(ip))
        v6Addr == [v4 |-> FALSE, bits |-> BitsOfNetBytes(addrBytes)]
    IN  IF isIPv4Mapped(v6Addr)
        THEN IF maskThrows(createIPv4(v6Addr), prefix) THEN Thrown
             ELSE MakeIPPrefix(
                    toByteArray(createIPv6(maskAddr(createIPv4(v6Addr), prefix))), prefix)
        ELSE IF maskThrows(v6Addr, prefix) THEN Thrown
             ELSE MakeIPPrefix(toByteArray(maskAddr(v6Addr, prefix)), prefix)

\* IPPrefixFunction::call(result, Varchar ip, int64_t prefixBits):
\* folly::IPAddress addr(ip) throws when the string is not an address
IPPrefixOfVarchar(ip, prefixBits) ==
    IF ~AddrOk(ip) THEN Thrown
    ELSE LET addrBytes == toByteArray(createIPv6(AddrOf(ip)))
             intAddr == Int128OfMemory(bigEndianByteArray(addrBytes))
         IN  IPPrefixOfAddress(intAddr, prefixBits)

IPPrefixArgs(fn, ip, text, prefixBits) ==
    [fn |-> fn, ip |-> ip, text |-> text, prefixBits |-> prefixBits]

CallIPPrefixOfAddress ==
    /\ pc = "call"
    /\ fnArgs.fn = "ip_prefix(IPAddress, bigint)"
    /\ LET r == IPPrefixOfAddress(fnArgs.ip, fnArgs.prefixBits)
       IN  IF r.threw
           THEN pc' = "failed" /\ fnOut' = fnOut
           ELSE pc' = "done" /\ fnOut' = [fn |-> fnArgs.fn, value |-> <<r.value>>]
    /\ UNCHANGED <<otherType, source, input, rows, skipErrorDetails, result, status,
                   fnArgs, registryVars>>

CallIPPrefixOfVarchar ==
    /\ pc = "call"
    /\ fnArgs.fn = "ip_prefix(varchar, bigint)"
    /\ LET r == IPPrefixOfVarchar(fnArgs.text, fnArgs.prefixBits)
       IN  IF r.threw
           THEN pc' = "failed" /\ fnOut' = fnOut
           ELSE pc' = "done" /\ fnOut' = [fn |-> fnArgs.fn, value |-> <<r.value>>]
    /\ UNCHANGED <<otherType, source, input, rows, skipErrorDetails, result, status,
                   fnArgs, registryVars>>

\* the values of prefixBits tried: every length of either family, values
\* around the ends of the ranges, negative ones, and values of more than 8 bits
PrefixBitsTried ==
    (-3..131) \cup {-256, -248, -129, -128, 200, 255, 256, 264, 288, 384, 511, 512,
                    65544, 16777224, 2147483647}

\* the strings given to the Varchar overload
AddressStrings ==
    { <<a>> : a \in AddrTexts } \cup { <<>>, <<Junk(1)>>, CidrText(V4Text(A4), 8) }

InitIPPrefix ==
    /\ pc = "call"
    /\ \E n \in PrefixBitsTried :
          \/ \E ip \in BaseIps \cup {{}, AllBits} :
                fnArgs = IPPrefixArgs("ip_prefix(IPAddress, bigint)", ip, <<>>, n)
          \/ \E text \in AddressStrings :
                fnArgs = IPPrefixArgs("ip_prefix(varchar, bigint)", {}, text, n)
    /\ fnOut = NoOut
    /\ otherType = VARCHAR
    /\ source = NoSource
    /\ input = NoVector
    /\ rows = {}
    /\ skipErrorDetails = FALSE
    /\ result = CHOOSE r \in PriorResults(0) : TRUE
    /\ status = NoVector
    /\ IdleRegistries

NextIPPrefix == CallIPPrefixOfAddress \/ CallIPPrefixOfVarchar

SpecIPPrefix == InitIPPrefix /\ [][NextIPPrefix]_vars

\* the address the call was given, as a 128-bit integer
GivenAddress ==
    IF fnArgs.fn = "ip_prefix(IPAddress, bigint)" THEN fnArgs.ip
    ELSE BitsOfNetBytes(toByteArray(createIPv6(AddrOf(fnArgs.text))))

\* C16: a call of ip_prefix(ip, prefixBits), of either overload, that
\* returns a value returns the one whose prefix length is prefixBits and
\* whose ip is the address masked to that length, with prefixBits in 0..128
\* (0..32 for an IPv4-mapped address); for any other prefixBits, those that
\* fit the range only after truncation to 8 bits included, the call fails.
C16_PrefixBitsAsGiven ==
    (pc = "done" /\ fnOut.fn \in {"ip_prefix(IPAddress, bigint)", "ip_prefix(varchar, bigint)"}) =>
        /\ fnArgs.prefixBits \in 0..Width(GivenAddress)
        /\ ToUint8(fnOut.value[1].prefix) = fnArgs.prefixBits
        /\ fnOut.value[1] = CanonicalOf(GivenAddress, fnArgs.prefixBits)

=============================================================================
